---- MODULE Spec2Model ----
(***************************************************************************)
(* Hotel management backend (FRANCISN007/HMS): rooms, stays (the           *)
(* reservations table, discriminated by status), and the payment ledger.   *)
(*                                                                         *)
(* The database tables are the state.  Every HTTP handler is one action    *)
(* (Spec); the handlers that commit twice are also given step by step      *)
(* (SpecSteps) so that their interleavings and the store failing between   *)
(* the two commits can be examined.                                        *)
(***************************************************************************)
EXTENDS Integers, FiniteSets, Sequences, TLC

\* ------------------------------------------------------------------ bounds

MaxDay == 3
MaxReservations == 2
MaxPayments == 2
MaxRate == 2
MaxAmount == 2
MaxInFlight == 2
MaxRooms == 2
MaxGroup == 2

\* date.today(): the clock is fixed for the length of a run.
Today == 1

RoomNumbers == {"101"}
GuestNames == {"ann", "bob"}
Days == 1..MaxDay
Rates == 1..MaxRate

\* get_current_user: the caller identity the auth layer hands to a handler.
Callers == { [username |-> "ann", role |-> "user"],
             [username |-> "root", role |-> "admin"] }

\* RoomSchema.status
RoomCreateStatuses == {"available", "checked-in", "maintenance", "reserved"}
\* RoomUpdateSchema.status (Optional: "none" is the field left out)
RoomUpdateStatuses == {"none", "available", "booked", "maintenance", "reserved"}
\* RoomUpdateSchema.amount (Optional: 0 stands for None, rates are >= 1 here)
RoomUpdateAmounts == {0} \cup Rates

VARIABLES
    rooms,          \* the rooms table: a set of rows
    reservations,   \* the reservations table (stays): a set of rows
    nextRoomId,     \* rooms.id autoincrement
    payments,       \* the payments table: a set of rows
    nextId,         \* reservations.id autoincrement
    nextPaymentId,  \* payments.id autoincrement
    last,           \* the response to the request handled last
    txns,           \* per worker: the request it is in the middle of
    users           \* the users table: a set of rows

vars == <<rooms, reservations, payments, nextRoomId, nextId, nextPaymentId, last,
          txns, users>>

\* ------------------------------------------------------------------ rows

Room(id, number, amount, status) ==
    [id |-> id, room_number |-> number, amount |-> amount, status |-> status]

\* A stay is the booking the payment ledger refers to: besides the columns the
\* stay handlers write, the row carries the booking's payment_status and the
\* booking_cost fixed when it is made.
Reservation(id, number, guest, arrival, departure, status, cost) ==
    [id |-> id, room_number |-> number, guest_name |-> guest,
     arrival_date |-> arrival, departure_date |-> departure, status |-> status,
     payment_status |-> "pending", booking_cost |-> cost]

Payment(id, booking, amount, discount, date, balance, status, cost) ==
    [id |-> id, booking_id |-> booking, amount_paid |-> amount,
     discount_allowed |-> discount, payment_date |-> date,
     balance_due |-> balance, status |-> status, booking_cost |-> cost]

\* The response to a request: the handler, the kind of its outcome, the room
\* number and the row created or touched.
Response(op, result, number, id) ==
    [op |-> op, result |-> result, room |-> number, id |-> id]

\* number_of_days of a booking: the nights between arrival and departure.
NumberOfDays(arrival, departure) == departure - arrival

\* booking_cost of a booking: the nights at the room's rate when it is made.
BookingCost(room, arrival, departure) ==
    NumberOfDays(arrival, departure) * room.amount

\* db.query(Room).filter(Room.room_number == n): the matching rows
RoomsByNumber(n) == {r \in rooms : r.room_number = n}

\* db.query(Reservation).filter(Reservation.room_number == n)
ReservationsByRoom(n) == {s \in reservations : s.room_number = n}

\* room.status = st; db.commit(): UPDATE rooms SET status WHERE id = room.id
SetRoomStatus(rs, room, st) ==
    {IF r.id = room.id THEN [r EXCEPT !.status = st] ELSE r : r \in rs}

\* reservation.status = st; db.commit()
SetReservationStatus(ss, res, st) ==
    {IF s.id = res.id THEN [s EXCEPT !.status = st] ELSE s : s \in ss}

\* An overlap test that lets a stay begin on the day another one ends.
StrictOverlaps(s, arrival, departure) ==
    /\ s.arrival_date < departure
    /\ s.departure_date > arrival

\* The overlap test of the conflict queries: inclusive on both ends.
Overlaps(s, arrival, departure) ==
    /\ s.arrival_date <= departure
    /\ s.departure_date >= arrival

\* The workers that handle requests side by side.
Procs == 1..MaxInFlight

\* A worker between requests.
IdleTxn == [op |-> "none", pc |-> "idle"]

Init ==
    /\ txns = [p \in Procs |-> IdleTxn]
    /\ users = {}
    /\ rooms = {}
    /\ reservations = {}
    /\ payments = {}
    /\ nextRoomId = 1
    /\ nextId = 1
    /\ nextPaymentId = 1
    /\ last = Response("none", "none", "none", 0)

\* ------------------------------------------------------------------ users

\* UserSchema.username
UserNames == {"ann", "bob", "root"}
\* UserSchema.role (Optional[str], "user" when left out)
Roles == {"user", "admin"}
\* ADMIN_PASSWORD = os.environ.get('ADMIN_PASSWORD')
ADMIN_PASSWORD == "secret"
\* UserSchema.admin_password ("none" is the field left out)
AdminPasswords == {"none", "guess", ADMIN_PASSWORD}

\* models.User(username=..., hashed_password=..., role=user.role)
User(username, role) == [username |-> username, role |-> role]

\* crud.get_user_by_username
get_user_by_username(username) == {u \in users : u.username = username}

\* The checks of sign_up (app/users/router.py) before the user is created.
SignUpCheck(username, role, admin_password) ==
    IF get_user_by_username(username) # {} THEN "exists"
    ELSE IF role = "admin"
            /\ (admin_password = "none" \/ admin_password # ADMIN_PASSWORD)
         THEN "permission"
    ELSE "ok"

\* The check of register_user (main.py) before the user is created.
RegisterCheck(username, role, admin_password) ==
    IF get_user_by_username(username) # {} THEN "exists" ELSE "ok"

\* POST /register/ (app/users/router.py)
sign_up(username, role, admin_password) ==
    LET result == SignUpCheck(username, role, admin_password) IN
    /\ UNCHANGED <<rooms, reservations, payments, nextRoomId, nextId, nextPaymentId,
                   txns>>
    /\ last' = Response("sign_up", result, username, 0)
    /\ users' = IF result = "ok" THEN users \cup {User(username, role)} ELSE users

\* POST /register/ (main.py)
register_user(username, role, admin_password) ==
    LET result == RegisterCheck(username, role, admin_password) IN
    /\ UNCHANGED <<rooms, reservations, payments, nextRoomId, nextId, nextPaymentId,
                   txns>>
    /\ last' = Response("register_user", result, username, 0)
    /\ users' = IF result = "ok" THEN users \cup {User(username, role)} ELSE users

\* DELETE /users/{username} (main.py): the caller is a registered user
delete_user(caller, username) ==
    /\ UNCHANGED <<rooms, reservations, payments, nextRoomId, nextId, nextPaymentId,
                   txns>>
    /\ IF caller.role # "admin"
       THEN /\ last' = Response("delete_user", "permission", username, 0)
            /\ UNCHANGED users
       ELSE IF get_user_by_username(username) = {}
       THEN /\ last' = Response("delete_user", "not_found", username, 0)
            /\ UNCHANGED users
       ELSE /\ users' = users \ get_user_by_username(username)
            /\ last' = Response("delete_user", "ok", username, 0)

\* ------------------------------------------------------------------ rooms

\* POST /rooms/
create_room(caller, number, amount, status) ==
    /\ UNCHANGED <<users, reservations, payments, nextId, nextPaymentId, txns>>
    /\ IF caller.role # "admin"
       THEN /\ last' = Response("create_room", "permission", number, 0)
            /\ UNCHANGED <<rooms, nextRoomId>>
       ELSE IF RoomsByNumber(number) # {}
       THEN /\ last' = Response("create_room", "exists", number, 0)
            /\ UNCHANGED <<rooms, nextRoomId>>
       ELSE /\ rooms' = rooms \cup {Room(nextRoomId, number, amount, status)}
            /\ nextRoomId' = nextRoomId + 1
            /\ last' = Response("create_room", "ok", number, nextRoomId)

\* The writes of update_room once the room is found and may be updated:
\* amount when given, status when given and one of the three the handler takes.
ApplyRoomUpdate(op, room, amount, status) ==
    IF status # "none" /\ status \notin {"available", "booked", "maintenance"}
    THEN /\ last' = Response(op, "validation", room.room_number, room.id)
         /\ UNCHANGED rooms
    ELSE /\ rooms' = {IF r.id = room.id
                      THEN [r EXCEPT !.amount = IF amount # 0 THEN amount ELSE @,
                                     !.status = IF status # "none" THEN status ELSE @]
                      ELSE r : r \in rooms}
         /\ last' = Response(op, "ok", room.room_number, room.id)

\* PUT /rooms/{room_number} (app/rooms/router.py)
update_room(caller, number, amount, status) ==
    /\ UNCHANGED <<users, reservations, payments, nextRoomId, nextId, nextPaymentId, txns>>
    /\ IF caller.role # "admin"
       THEN /\ last' = Response("update_room", "permission", number, 0)
            /\ UNCHANGED rooms
       ELSE IF RoomsByNumber(number) = {}
       THEN /\ last' = Response("update_room", "not_found", number, 0)
            /\ UNCHANGED rooms
       ELSE \E room \in RoomsByNumber(number) :
            IF room.status = "checked-in"
            THEN /\ last' = Response("update_room", "invalid_state", number, room.id)
                 /\ UNCHANGED rooms
            ELSE ApplyRoomUpdate("update_room", room, amount, status)

\* PUT /rooms/{room_number} (main.py): no guard on a checked-in room
main_update_room(caller, number, amount, status) ==
    /\ UNCHANGED <<users, reservations, payments, nextRoomId, nextId, nextPaymentId, txns>>
    /\ IF caller.role # "admin"
       THEN /\ last' = Response("main_update_room", "permission", number, 0)
            /\ UNCHANGED rooms
       ELSE IF RoomsByNumber(number) = {}
       THEN /\ last' = Response("main_update_room", "not_found", number, 0)
            /\ UNCHANGED rooms
       ELSE \E room \in RoomsByNumber(number) :
            ApplyRoomUpdate("main_update_room", room, amount, status)

\* GET /rooms/available (main.py): the rooms whose status is available
list_available_rooms == {r \in rooms : r.status = "available"}

\* DELETE /rooms/{room_number}
delete_room(caller, number) ==
    /\ UNCHANGED <<users, reservations, payments, nextRoomId, nextId, nextPaymentId, txns>>
    /\ IF caller.role # "admin"
       THEN /\ last' = Response("delete_room", "permission", number, 0)
            /\ UNCHANGED rooms
       ELSE IF RoomsByNumber(number) = {}
       THEN /\ last' = Response("delete_room", "not_found", number, 0)
            /\ UNCHANGED rooms
       ELSE \E room \in RoomsByNumber(number) :
            IF room.status \in {"checked-in", "reserved"}
            THEN /\ last' = Response("delete_room", "invalid_state", number, room.id)
                 /\ UNCHANGED rooms
            ELSE /\ rooms' = rooms \ {room}
                 /\ last' = Response("delete_room", "ok", number, room.id)

\* DELETE /rooms/{room_number} of main.py: the room's status is not looked at
main_delete_room(caller, number) ==
    /\ UNCHANGED <<users, reservations, payments, nextRoomId, nextId, nextPaymentId, txns>>
    /\ IF caller.role # "admin"
       THEN /\ last' = Response("main_delete_room", "permission", number, 0)
            /\ UNCHANGED rooms
       ELSE IF RoomsByNumber(number) = {}
       THEN /\ last' = Response("main_delete_room", "not_found", number, 0)
            /\ UNCHANGED rooms
       ELSE \E room \in RoomsByNumber(number) :
            /\ rooms' = rooms \ {room}
            /\ last' = Response("main_delete_room", "ok", number, room.id)

\* ------------------------------------------------------------------ stays

\* check_overlapping_check_in (app/reservations/crud): the checked-in stays of
\* the room whose dates overlap the requested range.
check_overlapping_check_in(number, arrival, departure) ==
    {s \in ReservationsByRoom(number) :
        s.status = "checked-in" /\ Overlaps(s, arrival, departure)}

\* check_overlapping_reservations (app/reservations/crud): the active
\* (reserved) reservations of the room whose dates overlap the requested range.
check_overlapping_reservations(number, arrival, departure) ==
    {s \in ReservationsByRoom(number) :
        s.status = "reserved" /\ Overlaps(s, arrival, departure)}

\* The same validations without the look at a room under maintenance.
CheckWithoutMaintenance(number, arrival, departure) ==
    IF arrival > departure THEN "validation"
    ELSE IF arrival <= Today THEN "validation"
    ELSE IF RoomsByNumber(number) = {} THEN "not_found"
    ELSE IF check_overlapping_check_in(number, arrival, departure) # {}
         THEN "conflict_check_in"
    ELSE IF check_overlapping_reservations(number, arrival, departure) # {}
         THEN "conflict_reservation"
    ELSE "ok"

\* The same validations with the two conflict queries in the other order.
CheckReservationsFirst(number, arrival, departure) ==
    IF arrival > departure THEN "validation"
    ELSE IF arrival <= Today THEN "validation"
    ELSE IF RoomsByNumber(number) = {} THEN "not_found"
    ELSE IF check_overlapping_reservations(number, arrival, departure) # {}
         THEN "conflict_reservation"
    ELSE IF check_overlapping_check_in(number, arrival, departure) # {}
         THEN "conflict_check_in"
    ELSE IF \E room \in RoomsByNumber(number) : room.status = "maintenance"
         THEN "invalid_state"
    ELSE "ok"

\* The validations of create_reservation (app/reservations/router.py), top to
\* bottom: the error kind of the first one that fails, "ok" when none does.
CreateReservationCheck(number, arrival, departure) ==
    IF arrival > departure THEN "validation"
    ELSE IF arrival <= Today THEN "validation"
    ELSE IF RoomsByNumber(number) = {} THEN "not_found"
    ELSE IF check_overlapping_check_in(number, arrival, departure) # {}
         THEN "conflict_check_in"
    ELSE IF check_overlapping_reservations(number, arrival, departure) # {}
         THEN "conflict_reservation"
    ELSE IF \E room \in RoomsByNumber(number) : room.status = "maintenance"
         THEN "invalid_state"
    ELSE "ok"

\* What the conflict error of create_reservation names: the kind of the stay
\* and the dates of the row the conflict query returned (any of the rows that
\* overlap may be the one returned).
ConflictDetail(number, arrival, departure) ==
    LET result == CreateReservationCheck(number, arrival, departure) IN
    IF result = "conflict_check_in"
    THEN {[kind |-> "check-in", arrival_date |-> s.arrival_date,
           departure_date |-> s.departure_date] :
             s \in check_overlapping_check_in(number, arrival, departure)}
    ELSE IF result = "conflict_reservation"
    THEN {[kind |-> "reservation", arrival_date |-> s.arrival_date,
           departure_date |-> s.departure_date] :
             s \in check_overlapping_reservations(number, arrival, departure)}
    ELSE {}

\* POST /reservations/ (app/reservations/router.py)
create_reservation(number, guest, arrival, departure) ==
    LET result == CreateReservationCheck(number, arrival, departure) IN
    /\ UNCHANGED <<users, payments, nextRoomId, nextPaymentId, txns>>
    /\ IF result # "ok"
       THEN /\ last' = Response("create_reservation", result, number, 0)
            /\ UNCHANGED <<rooms, reservations, nextId>>
       ELSE \E room \in RoomsByNumber(number) :
            /\ nextId <= MaxReservations
            /\ reservations' = reservations \cup
                   {Reservation(nextId, number, guest, arrival, departure, "reserved",
                                BookingCost(room, arrival, departure))}
            /\ nextId' = nextId + 1
            /\ rooms' = SetRoomStatus(rooms, room, "reserved")
            /\ last' = Response("create_reservation", "ok", number, nextId)

\* The validations of create_reservation (main.py): the room must be available
\* and no reservation row of the room, whatever its status, may overlap.
MainCreateReservationCheck(number, arrival, departure) ==
    IF RoomsByNumber(number) = {} THEN "not_found"
    ELSE IF \E room \in RoomsByNumber(number) : room.status # "available"
         THEN "invalid_state"
    ELSE IF \E s \in ReservationsByRoom(number) : Overlaps(s, arrival, departure)
         THEN "conflict_reservation"
    ELSE "ok"

\* POST /reservations/ (main.py)
main_create_reservation(number, guest, arrival, departure) ==
    LET result == MainCreateReservationCheck(number, arrival, departure) IN
    /\ UNCHANGED <<users, payments, nextRoomId, nextPaymentId, txns>>
    /\ IF result # "ok"
       THEN /\ last' = Response("main_create_reservation", result, number, 0)
            /\ UNCHANGED <<rooms, reservations, nextId>>
       ELSE \E room \in RoomsByNumber(number) :
            /\ nextId <= MaxReservations
            /\ reservations' = reservations \cup
                   {Reservation(nextId, number, guest, arrival, departure, "reserved",
                                BookingCost(room, arrival, departure))}
            /\ nextId' = nextId + 1
            /\ rooms' = SetRoomStatus(rooms, room, "reserved")
            /\ last' = Response("main_create_reservation", "ok", number, nextId)

\* A check that only looks the room up.
RoomExistsCheck(number) ==
    IF RoomsByNumber(number) = {} THEN "not_found" ELSE "ok"

\* The validations of check_in_guest: the room exists and is available.
CheckInCheck(number) ==
    IF RoomsByNumber(number) = {} THEN "not_found"
    ELSE IF \E room \in RoomsByNumber(number) : room.status # "available"
         THEN "invalid_state"
    ELSE "ok"

\* POST /check-in/ (main.py)
check_in_guest(number, guest, arrival, departure) ==
    LET result == CheckInCheck(number) IN
    /\ UNCHANGED <<users, payments, nextRoomId, nextPaymentId, txns>>
    /\ IF result # "ok"
       THEN /\ last' = Response("check_in_guest", result, number, 0)
            /\ UNCHANGED <<rooms, reservations, nextId>>
       ELSE \E room \in RoomsByNumber(number) :
            /\ nextId <= MaxReservations
            /\ reservations' = reservations \cup
                   {Reservation(nextId, number, guest, arrival, departure, "checked-in",
                                BookingCost(room, arrival, departure))}
            /\ nextId' = nextId + 1
            /\ rooms' = SetRoomStatus(rooms, room, "checked-in")
            /\ last' = Response("check_in_guest", "ok", number, nextId)

\* The rows of the room, whatever their status.
RowsOfAnyStatus(number) == ReservationsByRoom(number)

\* The checked-in rows of the room; check_out_guest takes .first() of them,
\* and a query without ORDER BY may return any of them first.
CheckedInRows(number) ==
    {s \in ReservationsByRoom(number) : s.status = "checked-in"}

\* PUT /check-out/{room_number} (main.py)
check_out_guest(number) ==
    /\ UNCHANGED <<users, payments, nextRoomId, nextId, nextPaymentId, txns>>
    /\ IF RoomsByNumber(number) = {}
       THEN /\ last' = Response("check_out_guest", "not_found", number, 0)
            /\ UNCHANGED <<rooms, reservations>>
       ELSE IF CheckedInRows(number) = {}
       THEN /\ last' = Response("check_out_guest", "invalid_state", number, 0)
            /\ UNCHANGED <<rooms, reservations>>
       ELSE \E room \in RoomsByNumber(number), reservation \in CheckedInRows(number) :
            /\ reservations' = SetReservationStatus(reservations, reservation, "checked-out")
            /\ rooms' = SetRoomStatus(rooms, room, "available")
            /\ last' = Response("check_out_guest", "ok", number, reservation.id)

\* The lists of room numbers a group check-out may be given.
RoomLists == UNION {[1..k -> RoomNumbers] : k \in 1..MaxGroup}

\* A query for the stays of the room that are checked-in.
RowsCheckedIn(number, ss) ==
    {s \in ss : s.room_number = number /\ s.status = "checked-in"}

\* check_out_multiple_rooms: the rows of the room with status "booked"; the
\* handler takes .first() of them.
BookedRows(number, ss) ==
    {s \in ss : s.room_number = number /\ s.status = "booked"}

\* One entry of the results list.
GroupResult(number, status, message) ==
    [room_number |-> number, status |-> status, message |-> message]

\* The loop of check_out_multiple_rooms over the list, from the tables rs and
\* ss: every way it can end, as the tables it leaves and the results it
\* reports (the row .first() returns is any of the matching rows).
RECURSIVE GroupCheckOut(_, _, _)
GroupCheckOut(numbers, rs, ss) ==
    IF numbers = <<>>
    THEN {[rooms |-> rs, reservations |-> ss, results |-> <<>>]}
    ELSE LET number == Head(numbers)
             found == {r \in rs : r.room_number = number}
             Report(status, message, rest) ==
                 {[o EXCEPT !.results =
                      <<GroupResult(number, status, message)>> \o @] : o \in rest}
         IN IF found = {}
            THEN Report("error", "Room does not exist.",
                        GroupCheckOut(Tail(numbers), rs, ss))
            ELSE IF BookedRows(number, ss) = {}
            THEN Report("error", "Room is not currently booked.",
                        GroupCheckOut(Tail(numbers), rs, ss))
            ELSE UNION {Report("success", "successfully checked out",
                               GroupCheckOut(Tail(numbers),
                                             SetRoomStatus(rs, room, "available"),
                                             SetReservationStatus(ss, reservation,
                                                                  "checked-out"))) :
                          <<room, reservation>> \in found \X BookedRows(number, ss)}

\* PUT /check-out-group/ (main.py)
check_out_multiple_rooms(room_numbers) ==
    /\ UNCHANGED <<users, payments, nextRoomId, nextId, nextPaymentId, txns>>
    /\ \E o \in GroupCheckOut(room_numbers, rooms, reservations) :
          /\ rooms' = o.rooms
          /\ reservations' = o.reservations
          /\ last' = [op |-> "check_out_multiple_rooms", result |-> "ok",
                      room |-> "none", id |-> 0, results |-> o.results]

\* DELETE /reservations/delete-reservation/ (app/reservations/router.py):
\* the row is looked up by room number and guest name, whatever its status.
delete_reservation(caller, number, guest) ==
    LET found == {s \in ReservationsByRoom(number) : s.guest_name = guest} IN
    /\ UNCHANGED <<users, payments, nextRoomId, nextId, nextPaymentId, txns>>
    /\ IF found = {}
       THEN /\ last' = Response("delete_reservation", "not_found", number, 0)
            /\ UNCHANGED <<rooms, reservations>>
       ELSE \E reservation \in found :
            IF caller.role # "admin" /\ reservation.guest_name # caller.username
            THEN /\ last' = Response("delete_reservation", "permission", number,
                                     reservation.id)
                 /\ UNCHANGED <<rooms, reservations>>
            ELSE LET remaining == ReservationsByRoom(number) \ {reservation} IN
                 /\ reservations' = reservations \ {reservation}
                 /\ rooms' = IF remaining = {}
                             THEN {[r EXCEPT !.status = "available"] :
                                      r \in RoomsByNumber(number)}
                                  \cup (rooms \ RoomsByNumber(number))
                             ELSE rooms
                 /\ last' = Response("delete_reservation", "ok", number, reservation.id)

\* A cancellation that deletes the row first and looks at the caller's role
\* afterwards.
CancelThenAuthorise(caller, number) ==
    /\ UNCHANGED <<users, payments, nextRoomId, nextId, nextPaymentId, txns>>
    /\ IF ReservationsByRoom(number) = {}
       THEN /\ last' = Response("cancel_reservation", "not_found", number, 0)
            /\ UNCHANGED <<rooms, reservations>>
       ELSE \E reservation \in ReservationsByRoom(number) :
            /\ rooms' = {IF r.room_number = number /\ r.status = "reserved"
                         THEN [r EXCEPT !.status = "available"] ELSE r : r \in rooms}
            /\ reservations' = reservations \ {reservation}
            /\ last' = Response("cancel_reservation",
                                IF caller.role # "admin" THEN "permission" ELSE "ok",
                                number, reservation.id)

\* DELETE /reservations/{room_number} (main.py): admin only; the row is the
\* first reservation row of the room, whatever its status.
cancel_reservation(caller, number) ==
    /\ UNCHANGED <<users, payments, nextRoomId, nextId, nextPaymentId, txns>>
    /\ IF caller.role # "admin"
       THEN /\ last' = Response("cancel_reservation", "permission", number, 0)
            /\ UNCHANGED <<rooms, reservations>>
       ELSE IF ReservationsByRoom(number) = {}
       THEN /\ last' = Response("cancel_reservation", "not_found", number, 0)
            /\ UNCHANGED <<rooms, reservations>>
       ELSE \E reservation \in ReservationsByRoom(number) :
            /\ rooms' = {IF r.room_number = number /\ r.status = "reserved"
                         THEN [r EXCEPT !.status = "available"] ELSE r : r \in rooms}
            /\ reservations' = reservations \ {reservation}
            /\ last' = Response("cancel_reservation", "ok", number, reservation.id)

\* ------------------------------------------------------------------ payments

\* datetime.now(timezone.utc): the server clock when a payment is recorded.
Now == Today

\* PaymentCreateSchema.payment_date: with or without a timezone, and when.
PaymentDates == { [aware |-> TRUE, at |-> Now], [aware |-> FALSE, at |-> Now],
                  [aware |-> TRUE, at |-> Now + 1] }
Amounts == 0..MaxAmount
Discounts == 0..1

\* db.query(Booking).filter(Booking.id == booking_id)
BookingsById(booking_id) == {b \in reservations : b.id = booking_id}

\* sum(payment.amount_paid + (payment.discount_allowed or 0) for payment in ps)
RECURSIVE SumPayments(_)
SumPayments(ps) ==
    IF ps = {} THEN 0
    ELSE LET x == CHOOSE x \in ps : TRUE
         IN x.amount_paid + x.discount_allowed + SumPayments(ps \ {x})

\* The payments of the booking, voided ones included.
EveryPaymentOf(booking_id) == {x \in payments : x.booking_id = booking_id}

\* The payments of the booking that are not voided.
ExistingPayments(booking_id) ==
    {x \in payments : x.booking_id = booking_id /\ x.status # "voided"}

\* total_due = num_days * room.amount, with the room as it is now
TotalDue(booking, room) ==
    NumberOfDays(booking.arrival_date, booking.departure_date) * room.amount

\* new_total_payment
NewTotalPayment(booking_id, amount, discount) ==
    SumPayments(ExistingPayments(booking_id)) + amount + discount

\* A comparison that also refuses the payment that settles the amount due.
RefusesExactPayment(new_total, total_due) == new_total >= total_due

\* if new_total_payment > effective_total_due: the payment is refused
IsOverpayment(new_total, total_due) == new_total > total_due

\* The timezone check alone, with no look at the clock.
TimezoneOnly(date) == IF ~date.aware THEN "validation" ELSE "ok"

\* The validations of create_payment before the booking is looked at.
PaymentDateCheck(date) ==
    IF ~date.aware THEN "validation"
    ELSE IF date.at > Now THEN "validation"
    ELSE "ok"

\* balance_due = max(effective_total_due - new_total_payment, 0)
BalanceDue(total_due, new_total) ==
    IF total_due - new_total > 0 THEN total_due - new_total ELSE 0

\* A status that never reports the booking as paid up.
NeverCompleted(balance_due) == "payment incomplete"

\* status = "payment incomplete" if balance_due > 0 else "payment completed"
PaymentStatus(balance_due) ==
    IF balance_due > 0 THEN "payment incomplete" ELSE "payment completed"

\* The amount the overpayment error names in its detail:
\* f"Payment exceeds the total due amount of {effective_total_due}. ..."
OverpaymentDetail(new_total, total_due) == total_due

\* The validations of create_payment once the booking and its room are read.
PaymentCheck(booking, room, amount, discount) ==
    IF booking.status \notin {"checked-in", "reserved"} THEN "invalid_state"
    ELSE IF IsOverpayment(NewTotalPayment(booking.id, amount, discount),
                          TotalDue(booking, room))
         THEN "overpayment"
    ELSE "ok"

\* crud.create_payment: the row create_payment inserts.
NewPayment(id, booking, room, amount, discount, date) ==
    LET balance_due == BalanceDue(TotalDue(booking, room),
                                  NewTotalPayment(booking.id, amount, discount))
    IN Payment(id, booking.id, amount, discount, date, balance_due,
               PaymentStatus(balance_due), booking.booking_cost)

\* booking_record.payment_status = status; db.commit()
SetPaymentStatus(bs, booking_id, status) ==
    {IF b.id = booking_id THEN [b EXCEPT !.payment_status = status] ELSE b : b \in bs}

\* POST /payments/create/{booking_id}
create_payment(booking_id, amount, discount, date) ==
    /\ UNCHANGED <<users, rooms, nextRoomId, nextId, txns>>
    /\ IF PaymentDateCheck(date) # "ok"
       THEN /\ last' = Response("create_payment", PaymentDateCheck(date), "none", 0)
            /\ UNCHANGED <<reservations, payments, nextPaymentId>>
       ELSE IF BookingsById(booking_id) = {}
       THEN /\ last' = Response("create_payment", "not_found", "none", 0)
            /\ UNCHANGED <<reservations, payments, nextPaymentId>>
       ELSE \E booking \in BookingsById(booking_id) :
            IF RoomsByNumber(booking.room_number) = {}
            THEN /\ last' = Response("create_payment", "not_found",
                                     booking.room_number, 0)
                 /\ UNCHANGED <<reservations, payments, nextPaymentId>>
            ELSE \E room \in RoomsByNumber(booking.room_number) :
                 LET result == PaymentCheck(booking, room, amount, discount)
                     new_payment == NewPayment(nextPaymentId, booking, room, amount,
                                               discount, date)
                 IN IF result # "ok"
                    THEN /\ last' = Response("create_payment", result,
                                             booking.room_number, 0)
                         /\ UNCHANGED <<reservations, payments, nextPaymentId>>
                    ELSE /\ nextPaymentId <= MaxPayments
                         /\ payments' = payments \cup {new_payment}
                         /\ nextPaymentId' = nextPaymentId + 1
                         /\ reservations' = SetPaymentStatus(reservations, booking.id,
                                                             new_payment.status)
                         /\ last' = Response("create_payment", "ok",
                                             booking.room_number, nextPaymentId)

\* crud.get_payment_by_id(db, payment_id): the payment with that id, whatever
\* its status.
get_payment_by_id(payment_id) == {x \in payments : x.id = payment_id}

\* The lookup alone, with no look at the caller's role.
LookupOnly(caller, payment_id) ==
    IF get_payment_by_id(payment_id) = {} THEN "not_found" ELSE "ok"

\* The checks of void_payment before it writes.
VoidPaymentCheck(caller, payment_id) ==
    IF caller.role # "admin" THEN "permission"
    ELSE IF get_payment_by_id(payment_id) = {} THEN "not_found"
    ELSE "ok"

\* A void that also hands the paid amount back to the balance.
VoidedAndRefunded(x) ==
    [x EXCEPT !.status = "voided", !.balance_due = @ + x.amount_paid]

\* A void that also clears the amount paid.
VoidedAndCleared(x) == [x EXCEPT !.status = "voided", !.amount_paid = 0]

\* A void that gives a voided payment its status back.
VoidToggled(x) ==
    [x EXCEPT !.status = IF @ = "voided" THEN "payment incomplete" ELSE "voided"]

\* payment.status = "voided"
Voided(x) == [x EXCEPT !.status = "voided"]

\* PUT /payments/void/{payment_id}/
void_payment(caller, payment_id) ==
    LET result == VoidPaymentCheck(caller, payment_id) IN
    /\ UNCHANGED <<users, rooms, reservations, nextRoomId, nextId, nextPaymentId, txns>>
    /\ last' = Response("void_payment", result, "none", payment_id)
    /\ payments' = IF result = "ok"
                   THEN (payments \ get_payment_by_id(payment_id))
                        \cup {Voided(x) : x \in get_payment_by_id(payment_id)}
                   ELSE payments

\* sum of payment.amount_paid over the rows
RECURSIVE SumAmountPaid(_)
SumAmountPaid(ps) ==
    IF ps = {} THEN 0
    ELSE LET x == CHOOSE x \in ps : TRUE
         IN x.amount_paid + SumAmountPaid(ps \ {x})

\* The date filters of list_payments; 0 stands for a date that is not given.
InDateRange(x, start_date, end_date) ==
    /\ start_date = 0 \/ x.payment_date.at >= start_date
    /\ end_date = 0 \/ x.payment_date.at <= end_date

\* GET /payments/list/: total_amount, the amount_paid of the rows in the range
\* whose status is neither voided nor cancelled.
list_payments(start_date, end_date) ==
    SumAmountPaid({x \in payments : /\ InDateRange(x, start_date, end_date)
                                    /\ x.status \notin {"voided", "cancelled"}})

\* GET /payments/total_daily_payment/: total_amount, the amount_paid of the
\* rows of the current day that are not voided.
total_payment ==
    SumAmountPaid({x \in payments : /\ x.payment_date.at >= Today
                                    /\ x.payment_date.at < Today + 1
                                    /\ x.status # "voided"})

\* A total paid that also counts the voided payments of the booking.
PaidWithVoided(booking) ==
    SumPayments({x \in payments : x.booking_id = booking.id})

\* get_debtor_list: total_paid of a booking, over its payments not voided.
DebtorTotalPaid(booking) ==
    SumPayments({x \in payments : x.booking_id = booking.id /\ x.status # "voided"})

\* GET /payments/debtor_list/: the bookings not cancelled, with a room, whose
\* balance_due = number_of_days * room.amount - total_paid is above 0.
get_debtor_list ==
    {[booking_id |-> b.id, total_due |-> TotalDue(b, room),
      total_paid |-> DebtorTotalPaid(b),
      amount_due |-> TotalDue(b, room) - DebtorTotalPaid(b)] :
        <<b, room>> \in {<<b, room>> \in reservations \X rooms :
                           /\ b.status # "cancelled"
                           /\ room.room_number = b.room_number
                           /\ TotalDue(b, room) - DebtorTotalPaid(b) > 0}}

\* total_debt_amount += balance_due, over the entries of the debtor list
RECURSIVE SumAmountDue(_)
SumAmountDue(entries) ==
    IF entries = {} THEN 0
    ELSE LET e == CHOOSE e \in entries : TRUE
         IN e.amount_due + SumAmountDue(entries \ {e})

\* GET /payments/debtor_list/: total_debt_amount
total_debt_amount == SumAmountDue(get_debtor_list)

\* ------------------------------------------------------------------ steps
\* The handlers that commit twice, one database round trip at a time.  A
\* request is validated against the rows as they are when it reads them
\* (Begin...), then its first db.commit() (FirstCommit) and its second
\* (SecondCommit) follow; other workers may run in between.  The store may
\* raise at either commit (Fail): the handler's except branch calls
\* db.rollback(), which undoes nothing that was committed, and answers 500.

InFlight(p) == txns[p].pc \in {"validated", "committed"}

\* The workers are alike: a request goes to the first one that is free.
Free(p) == ~InFlight(p) /\ \A q \in Procs : q < p => InFlight(q)

\* What is kept of a request once it is answered: its fields and its outcome.
Answered(t, result) ==
    IF t.op \in {"create_reservation", "main_create_reservation", "check_in_guest"}
    THEN [op |-> t.op, pc |-> "done", room_number |-> t.room_number,
          arrival_date |-> t.arrival_date, departure_date |-> t.departure_date,
          id |-> t.id, read_at |-> t.read_at, result |-> result]
    ELSE [op |-> t.op, pc |-> "done", room_number |-> t.room_number,
          id |-> t.id, result |-> result]

\* Payment rows the requests in flight have yet to insert.
PendingPayments ==
    Cardinality({p \in Procs : txns[p].pc = "validated" /\ txns[p].op = "create_payment"})

PaymentTxn(new_payment, number) ==
    [op |-> "create_payment", pc |-> "validated", room_number |-> number,
     payment |-> new_payment, id |-> 0, result |-> "none"]

\* Reservation rows the requests in flight have yet to insert.
PendingInserts ==
    Cardinality({p \in Procs : /\ txns[p].pc = "validated"
                               /\ txns[p].op \in {"create_reservation",
                                                  "main_create_reservation",
                                                  "check_in_guest"}})

StayTxn(op, room, number, guest, arrival, departure) ==
    [op |-> op, pc |-> "validated", room_number |-> number, room_id |-> room.id,
     guest_name |-> guest, arrival_date |-> arrival, departure_date |-> departure,
     cost |-> BookingCost(room, arrival, departure),
     id |-> 0, read_at |-> nextId, result |-> "none",
     before |-> [rooms |-> rooms, reservations |-> reservations]]

TargetTxn(op, number, room_id, reservation) ==
    [op |-> op, pc |-> "validated", room_number |-> number, room_id |-> room_id,
     id |-> reservation.id, result |-> "none",
     before |-> [rooms |-> rooms, reservations |-> reservations]]

\* create_reservation, both variants, and check_in_guest, up to the try block
BeginCreate(p, op, number, guest, arrival, departure) ==
    LET result == CASE op = "create_reservation" ->
                         CreateReservationCheck(number, arrival, departure)
                    [] op = "main_create_reservation" ->
                         MainCreateReservationCheck(number, arrival, departure)
                    [] op = "check_in_guest" -> CheckInCheck(number)
    IN
    /\ Free(p)
    /\ UNCHANGED <<users, rooms, reservations, payments, nextRoomId, nextId, nextPaymentId>>
    /\ IF result # "ok"
       THEN /\ last' = Response(op, result, number, 0)
            /\ txns' = [txns EXCEPT ![p] = IdleTxn]
       ELSE \E room \in RoomsByNumber(number) :
            /\ nextId + PendingInserts <= MaxReservations
            /\ txns' = [txns EXCEPT
                          ![p] = StayTxn(op, room, number, guest, arrival, departure)]
            /\ UNCHANGED last

\* create_payment up to the try block: the payment row it will insert is
\* worked out from the payments it has read.
BeginPayment(p, booking_id, amount, discount, date) ==
    /\ Free(p)
    /\ UNCHANGED <<users, rooms, reservations, payments, nextRoomId, nextId, nextPaymentId>>
    /\ IF PaymentDateCheck(date) # "ok"
       THEN /\ last' = Response("create_payment", PaymentDateCheck(date), "none", 0)
            /\ txns' = [txns EXCEPT ![p] = IdleTxn]
       ELSE IF BookingsById(booking_id) = {}
       THEN /\ last' = Response("create_payment", "not_found", "none", 0)
            /\ txns' = [txns EXCEPT ![p] = IdleTxn]
       ELSE \E booking \in BookingsById(booking_id) :
            IF RoomsByNumber(booking.room_number) = {}
            THEN /\ last' = Response("create_payment", "not_found",
                                     booking.room_number, 0)
                 /\ txns' = [txns EXCEPT ![p] = IdleTxn]
            ELSE \E room \in RoomsByNumber(booking.room_number) :
                 LET result == PaymentCheck(booking, room, amount, discount) IN
                 IF result # "ok"
                 THEN /\ last' = Response("create_payment", result,
                                          booking.room_number, 0)
                      /\ txns' = [txns EXCEPT ![p] = IdleTxn]
                 ELSE /\ nextPaymentId + PendingPayments <= MaxPayments
                      /\ txns' = [txns EXCEPT ![p] =
                             PaymentTxn(NewPayment(0, booking, room, amount,
                                                   discount, date),
                                        booking.room_number)]
                      /\ UNCHANGED last

\* check_out_guest up to the try block
BeginCheckOut(p, number) ==
    /\ Free(p)
    /\ UNCHANGED <<users, rooms, reservations, payments, nextRoomId, nextId, nextPaymentId>>
    /\ IF RoomsByNumber(number) = {}
       THEN /\ last' = Response("check_out_guest", "not_found", number, 0)
            /\ txns' = [txns EXCEPT ![p] = IdleTxn]
       ELSE IF CheckedInRows(number) = {}
       THEN /\ last' = Response("check_out_guest", "invalid_state", number, 0)
            /\ txns' = [txns EXCEPT ![p] = IdleTxn]
       ELSE \E room \in RoomsByNumber(number), reservation \in CheckedInRows(number) :
            /\ txns' = [txns EXCEPT ![p] = TargetTxn("check_out_guest", number,
                                                     room.id, reservation)]
            /\ UNCHANGED last

\* cancel_reservation (main.py) up to the try block
BeginCancel(p, caller, number) ==
    /\ Free(p)
    /\ UNCHANGED <<users, rooms, reservations, payments, nextRoomId, nextId, nextPaymentId>>
    /\ IF caller.role # "admin"
       THEN /\ last' = Response("cancel_reservation", "permission", number, 0)
            /\ txns' = [txns EXCEPT ![p] = IdleTxn]
       ELSE IF ReservationsByRoom(number) = {}
       THEN /\ last' = Response("cancel_reservation", "not_found", number, 0)
            /\ txns' = [txns EXCEPT ![p] = IdleTxn]
       ELSE \E reservation \in ReservationsByRoom(number) :
            /\ txns' = [txns EXCEPT ![p] = TargetTxn("cancel_reservation", number,
                                                     0, reservation)]
            /\ UNCHANGED last

\* The row a request in flight refers to is still there (an UPDATE or DELETE
\* of a row another worker deleted raises).
TargetExists(t) == \E s \in reservations : s.id = t.id

\* The first db.commit() of the request worker p is handling.
FirstCommit(p) ==
    LET t == txns[p] IN
    /\ t.pc = "validated"
    /\ UNCHANGED <<users, nextRoomId, last>>
    /\ IF t.op = "create_payment" THEN UNCHANGED <<rooms, reservations, nextId>>
                                  ELSE UNCHANGED <<payments, nextPaymentId>>
    /\ CASE t.op = "create_payment" ->
              /\ payments' = payments \cup {[t.payment EXCEPT !.id = nextPaymentId]}
              /\ nextPaymentId' = nextPaymentId + 1
              /\ txns' = [txns EXCEPT ![p].pc = "committed", ![p].id = nextPaymentId]
         [] t.op \in {"create_reservation", "main_create_reservation"} ->
              /\ reservations' = reservations \cup
                     {Reservation(nextId, t.room_number, t.guest_name, t.arrival_date,
                                  t.departure_date, "reserved", t.cost)}
              /\ nextId' = nextId + 1
              /\ txns' = [txns EXCEPT ![p].pc = "committed", ![p].id = nextId]
              /\ UNCHANGED rooms
         [] t.op = "check_in_guest" ->
              /\ reservations' = reservations \cup
                     {Reservation(nextId, t.room_number, t.guest_name, t.arrival_date,
                                  t.departure_date, "checked-in", t.cost)}
              /\ nextId' = nextId + 1
              /\ txns' = [txns EXCEPT ![p].pc = "committed", ![p].id = nextId]
              /\ UNCHANGED rooms
         [] t.op = "check_out_guest" ->
              /\ TargetExists(t)
              /\ reservations' = SetReservationStatus(reservations, t, "checked-out")
              /\ txns' = [txns EXCEPT ![p].pc = "committed"]
              /\ UNCHANGED <<rooms, nextId>>
         [] t.op = "cancel_reservation" ->
              \* the room is read here, inside the try block
              /\ rooms' = {IF r.room_number = t.room_number /\ r.status = "reserved"
                           THEN [r EXCEPT !.status = "available"] ELSE r : r \in rooms}
              /\ txns' = [txns EXCEPT ![p].pc = "committed"]
              /\ UNCHANGED <<reservations, nextId>>

\* The second db.commit() of the request, and its 200 response.
SecondCommit(p) ==
    LET t == txns[p]
        room == [id |-> IF t.op = "create_payment" THEN 0 ELSE t.room_id]
    IN
    /\ t.pc = "committed"
    /\ UNCHANGED <<users, payments, nextRoomId, nextId, nextPaymentId>>
    /\ CASE t.op = "create_payment" ->
              /\ reservations' = SetPaymentStatus(reservations, t.payment.booking_id,
                                                  t.payment.status)
              /\ UNCHANGED rooms
         [] t.op \in {"create_reservation", "main_create_reservation"} ->
              /\ rooms' = SetRoomStatus(rooms, room, "reserved")
              /\ UNCHANGED reservations
         [] t.op = "check_in_guest" ->
              /\ rooms' = SetRoomStatus(rooms, room, "checked-in")
              /\ UNCHANGED reservations
         [] t.op = "check_out_guest" ->
              /\ rooms' = SetRoomStatus(rooms, room, "available")
              /\ UNCHANGED reservations
         [] t.op = "cancel_reservation" ->
              /\ TargetExists(t)
              /\ reservations' = {s \in reservations : s.id # t.id}
              /\ UNCHANGED rooms
    /\ txns' = [txns EXCEPT ![p] = Answered(t, "ok")]
    /\ last' = Response(t.op, "ok", t.room_number, t.id)

\* The store raises at the commit the request has reached: db.rollback() and
\* a 500 response.  What was committed before stays committed.
Fail(p) ==
    LET t == txns[p] IN
    /\ InFlight(p)
    /\ UNCHANGED <<users, rooms, reservations, payments, nextRoomId, nextId, nextPaymentId>>
    /\ txns' = [txns EXCEPT ![p] = Answered(t, "persistence")]
    /\ last' = Response(t.op, "persistence", t.room_number, t.id)

\* create_room one database round trip at a time: the handler reads the rooms
\* (BeginCreateRoom), then crud.create_room inserts and commits (CommitRoom);
\* other workers may run in between.

RoomTxn(number, amount, status) ==
    [op |-> "create_room", pc |-> "validated", room_number |-> number,
     amount |-> amount, status |-> status, id |-> 0, result |-> "none"]

\* create_room up to the call of crud.create_room
BeginCreateRoom(p, caller, number, amount, status) ==
    /\ Free(p)
    /\ UNCHANGED <<users, rooms, reservations, payments, nextRoomId, nextId, nextPaymentId>>
    /\ IF caller.role # "admin"
       THEN /\ last' = Response("create_room", "permission", number, 0)
            /\ txns' = [txns EXCEPT ![p] = IdleTxn]
       ELSE IF RoomsByNumber(number) # {}
       THEN /\ last' = Response("create_room", "exists", number, 0)
            /\ txns' = [txns EXCEPT ![p] = IdleTxn]
       ELSE /\ txns' = [txns EXCEPT ![p] = RoomTxn(number, amount, status)]
            /\ UNCHANGED last

\* A rooms table with no constraint on room_number.
NoConstraint(number) == FALSE

\* room_number = Column(String, unique=True, nullable=False): the INSERT of a
\* room number that is already in the table raises IntegrityError.
UniqueViolation(number) == RoomsByNumber(number) # {}

\* crud.create_room: db.add(db_room); db.commit().  The handler has no except
\* branch: an IntegrityError is answered 500 and no row is added.
CommitRoom(p) ==
    LET t == txns[p] IN
    /\ t.pc = "validated" /\ t.op = "create_room"
    /\ UNCHANGED <<users, reservations, payments, nextId, nextPaymentId>>
    /\ IF UniqueViolation(t.room_number)
       THEN /\ UNCHANGED <<rooms, nextRoomId>>
            /\ txns' = [txns EXCEPT ![p] = Answered(t, "persistence")]
            /\ last' = Response("create_room", "persistence", t.room_number, 0)
       ELSE /\ rooms' = rooms \cup {Room(nextRoomId, t.room_number, t.amount, t.status)}
            /\ nextRoomId' = nextRoomId + 1
            /\ txns' = [txns EXCEPT ![p] = Answered([t EXCEPT !.id = nextRoomId], "ok")]
            /\ last' = Response("create_room", "ok", t.room_number, nextRoomId)

\* ------------------------------------------------------------------ spec

Admin == [username |-> "root", role |-> "admin"]

\* The stay handlers, with rooms of one rate: the rate plays no part in them.
Next ==
    \/ \E c \in Callers, n \in RoomNumbers, st \in RoomCreateStatuses :
          create_room(c, n, 1, st)
    \/ \E c \in Callers, n \in RoomNumbers, st \in RoomUpdateStatuses :
          update_room(c, n, 0, st)
    \/ \E c \in Callers, n \in RoomNumbers, st \in RoomUpdateStatuses :
          main_update_room(c, n, 0, st)
    \/ \E n \in RoomNumbers, g \in GuestNames, a \in Days, d \in Days :
          create_reservation(n, g, a, d)
    \/ \E n \in RoomNumbers, g \in GuestNames, a \in Days, d \in Days :
          main_create_reservation(n, g, a, d)
    \/ \E n \in RoomNumbers, g \in GuestNames, a \in Days, d \in Days :
          check_in_guest(n, g, a, d)
    \/ \E n \in RoomNumbers : check_out_guest(n)
    \/ \E c \in Callers, n \in RoomNumbers, g \in GuestNames :
          delete_reservation(c, n, g)
    \/ \E c \in Callers, n \in RoomNumbers : cancel_reservation(c, n)

Spec == Init /\ [][Next]_vars

\* The payment ledger over bookings made by reservation or check-in, with the
\* room's rate open to change.
BookingIds == 1..MaxReservations
PaymentIds == 1..MaxPayments

NextPay ==
    \/ \E n \in RoomNumbers, a \in Rates :
          create_room(Admin, n, a, "available")
    \/ \E n \in RoomNumbers, a \in RoomUpdateAmounts :
          update_room(Admin, n, a, "none")
    \/ \E n \in RoomNumbers, a \in Days, d \in Days :
          create_reservation(n, "ann", a, d)
    \/ \E n \in RoomNumbers, d \in Days :
          check_in_guest(n, "ann", Today, d)
    \/ \E b \in BookingIds, a \in Amounts, d \in Discounts, t \in PaymentDates :
          create_payment(b, a, d, t)
    \/ \E c \in Callers, x \in PaymentIds : void_payment(c, x)

SpecPay == Init /\ [][NextPay]_vars

\* The payment ledger over bookings that are checked in and checked out, on
\* rooms of one rate that an admin may delete once they are available again.
NextLedger ==
    \/ \E n \in RoomNumbers :
          nextRoomId <= MaxRooms /\ create_room(Admin, n, 1, "available")
    \/ \E n \in RoomNumbers, d \in Days : check_in_guest(n, "ann", Today, d)
    \/ \E n \in RoomNumbers : check_out_guest(n)
    \/ \E n \in RoomNumbers : delete_room(Admin, n)
    \/ \E b \in BookingIds, a \in Amounts, d \in Discounts, t \in PaymentDates :
          create_payment(b, a, d, t)
    \/ \E c \in Callers, x \in PaymentIds : void_payment(c, x)

SpecLedger == Init /\ [][NextLedger]_vars

\* The stay handlers step by step, one request at a time, on rooms created
\* available: the store may fail at either commit of a request.
NextSteps ==
    \/ \E n \in RoomNumbers : create_room(Admin, n, 1, "available")
    \/ \E n \in RoomNumbers, a \in Days, d \in Days,
          op \in {"create_reservation", "main_create_reservation", "check_in_guest"} :
          a <= d /\ BeginCreate(1, op, n, "ann", a, d)
    \/ \E n \in RoomNumbers : BeginCheckOut(1, n)
    \/ \E n \in RoomNumbers : BeginCancel(1, Admin, n)
    \/ FirstCommit(1)
    \/ SecondCommit(1)
    \/ Fail(1)

SpecSteps == Init /\ [][NextSteps]_vars

\* Requests that create a stay, handled side by side by the workers; the
\* store does not fail.
NextRace ==
    \/ \E n \in RoomNumbers : create_room(Admin, n, 1, "available")
    \/ \E p \in Procs, n \in RoomNumbers, a \in Days, d \in Days,
          op \in {"create_reservation", "main_create_reservation", "check_in_guest"} :
          a <= d /\ BeginCreate(p, op, n, "ann", a, d)
    \/ \E p \in Procs : FirstCommit(p)
    \/ \E p \in Procs : SecondCommit(p)

SpecRace == Init /\ [][NextRace]_vars

\* Payments recorded side by side against bookings made by check-in; rates
\* are not changed and no payment is voided.
NextPayRace ==
    \/ \E n \in RoomNumbers, a \in Rates : create_room(Admin, n, a, "available")
    \/ \E n \in RoomNumbers, d \in Days : check_in_guest(n, "ann", Today, d)
    \/ \E p \in Procs, b \in BookingIds, a \in Amounts, d \in Discounts,
          t \in PaymentDates : BeginPayment(p, b, a, d, t)
    \/ \E p \in Procs : FirstCommit(p)
    \/ \E p \in Procs : SecondCommit(p)

SpecPayRace == Init /\ [][NextPayRace]_vars

\* Rooms created, occupied, vacated and deleted: both delete_room handlers,
\* with the stay handlers that give a room its status and its stays.
NextRooms ==
    \/ \E n \in RoomNumbers, st \in RoomCreateStatuses :
          nextRoomId <= MaxRooms /\ create_room(Admin, n, 1, st)
    \/ \E n \in RoomNumbers, g \in GuestNames, a \in Days, d \in Days :
          create_reservation(n, g, a, d)
    \/ \E n \in RoomNumbers, d \in Days : check_in_guest(n, "ann", Today, d)
    \/ \E n \in RoomNumbers : check_out_guest(n)
    \/ \E c \in Callers, n \in RoomNumbers : delete_room(c, n)
    \/ \E c \in Callers, n \in RoomNumbers : main_delete_room(c, n)

SpecRooms == Init /\ [][NextRooms]_vars

\* The six core operations side by side: reservation, check-in, check-out,
\* cancellation, payment and void, over rooms of one rate.
NextCore ==
    \/ \E n \in RoomNumbers : create_room(Admin, n, 1, "available")
    \/ \E n \in RoomNumbers, a \in Days, d \in Days :
          create_reservation(n, "ann", a, d)
    \/ \E n \in RoomNumbers, d \in Days : check_in_guest(n, "ann", Today, d)
    \/ \E n \in RoomNumbers : check_out_guest(n)
    \/ \E c \in Callers, n \in RoomNumbers, g \in GuestNames :
          delete_reservation(c, n, g)
    \/ \E c \in Callers, n \in RoomNumbers : cancel_reservation(c, n)
    \/ \E b \in BookingIds, a \in Amounts, d \in Discounts, t \in PaymentDates :
          create_payment(b, a, d, t)
    \/ \E c \in Callers, x \in PaymentIds : void_payment(c, x)

SpecCore == Init /\ [][NextCore]_vars

\* Registration in both variants, and the deletion of users by those of them
\* who are admins.
NextUsers ==
    \/ \E n \in UserNames, r \in Roles, pw \in AdminPasswords : sign_up(n, r, pw)
    \/ \E n \in UserNames, r \in Roles, pw \in AdminPasswords :
          register_user(n, r, pw)
    \/ \E caller \in users, n \in UserNames : delete_user(caller, n)

SpecUsers == Init /\ [][NextUsers]_vars

\* Group check-out among the handlers that create stays and end them.
NextGroup ==
    \/ \E n \in RoomNumbers : create_room(Admin, n, 1, "available")
    \/ \E n \in RoomNumbers, g \in GuestNames, a \in Days, d \in Days :
          create_reservation(n, g, a, d)
    \/ \E n \in RoomNumbers, g \in GuestNames, a \in Days, d \in Days :
          main_create_reservation(n, g, a, d)
    \/ \E n \in RoomNumbers, g \in GuestNames, a \in Days, d \in Days :
          check_in_guest(n, g, a, d)
    \/ \E n \in RoomNumbers : check_out_guest(n)
    \/ \E numbers \in RoomLists : check_out_multiple_rooms(numbers)

SpecGroup == Init /\ [][NextGroup]_vars

\* create_room requests side by side, with rooms deleted in between so that a
\* number can be asked for again.
NextRoomRace ==
    \/ \E p \in Procs, c \in Callers, n \in RoomNumbers, a \in Rates,
          st \in RoomCreateStatuses :
          nextRoomId <= MaxRooms /\ BeginCreateRoom(p, c, n, a, st)
    \/ \E p \in Procs : CommitRoom(p)
    \/ \E n \in RoomNumbers : delete_room(Admin, n)

SpecRoomRace == Init /\ [][NextRoomRace]_vars

\* ------------------------------------------------------------------ claims

\* A stay that counts for conflicts: reserved or checked-in.
Active(s) == s.status \in {"reserved", "checked-in"}

ActiveStays(number) == {s \in reservations : s.room_number = number /\ Active(s)}

\* Two stays have a day in common, both ends of both intervals included.
ShareADay(s1, s2) ==
    \E day \in Days : /\ s1.arrival_date <= day /\ day <= s1.departure_date
                      /\ s2.arrival_date <= day /\ day <= s2.departure_date

\* C1: after any sequence of stay and room-update operations, the reserved and
\* checked-in stays of a room are pairwise non-overlapping in their inclusive
\* [arrival, departure] intervals.
CE_C1_ActiveStaysDisjoint ==
    \A s1 \in reservations, s2 \in reservations :
        (s1.id # s2.id /\ s1.room_number = s2.room_number /\ Active(s1) /\ Active(s2))
            => ~ShareADay(s1, s2)

\* A request that created a stay and was answered 200.
CreatedOk(t) ==
    /\ t.pc = "done"
    /\ t.op \in {"create_reservation", "main_create_reservation", "check_in_guest"}
    /\ t.result = "ok"

\* C2: of two CreateReservation/CheckIn requests for the same room and
\* overlapping date ranges that run concurrently (each read the stays before
\* the other inserted its own), at most one succeeds.
CE_C2_ConcurrentCreatesExclude ==
    \A p \in Procs, q \in Procs :
        (p # q /\ CreatedOk(txns[p]) /\ CreatedOk(txns[q])
              /\ txns[p].room_number = txns[q].room_number
              /\ ShareADay(txns[p], txns[q]))
            => ~(txns[p].id >= txns[q].read_at /\ txns[q].id >= txns[p].read_at)

\* amountPaid + discountAllowed summed over the non-voided payments of a booking
RECURSIVE PaidSum(_)
PaidSum(ps) ==
    IF ps = {} THEN 0
    ELSE LET x == CHOOSE y \in ps : TRUE
         IN (IF x.status = "voided" THEN 0 ELSE x.amount_paid + x.discount_allowed)
            + PaidSum(ps \ {x})

PaidFor(booking_id) == PaidSum({x \in payments : x.booking_id = booking_id})

\* The amounts due of a booking: its nights at the rate of its room.
DueFor(booking) ==
    {(booking.departure_date - booking.arrival_date) * r.amount :
        r \in RoomsByNumber(booking.room_number)}

\* C3: for every booking the non-voided payments never add up to more than
\* totalDue, however concurrent RecordPayment calls interleave.
CE_C3_NeverOverpaid ==
    \A b \in reservations : \A due \in DueFor(b) : PaidFor(b.id) <= due

\* A booking against which a payment passes every validation but the
\* overpayment one.
Payable(b, date) ==
    /\ date.aware /\ date.at <= Now
    /\ RoomsByNumber(b.room_number) # {}
    /\ b.status \in {"checked-in", "reserved"}

\* C4: a RecordPayment whose amountPaid + discountAllowed, added to what the
\* booking's non-voided payments sum to, exceeds totalDue is rejected with an
\* overpayment error, creates no payment and changes no booking; one that does
\* not exceed it (and passes the other validations) is accepted and recorded.
C4_OverpaymentDecides ==
    [][last'.op = "create_payment" =>
       \A id \in BookingIds, amount \in Amounts, discount \in Discounts,
          date \in PaymentDates :
          ((\E b \in BookingsById(id) : Payable(b, date))
             /\ create_payment(id, amount, discount, date))
          => \A b \in BookingsById(id) : \A due \in DueFor(b) :
                IF PaidFor(id) + amount + discount > due
                THEN /\ last'.result = "overpayment"
                     /\ payments' = payments
                     /\ reservations' = reservations
                ELSE /\ last'.result = "ok"
                     /\ \E x \in payments' \ payments :
                           /\ x.booking_id = id
                           /\ x.amount_paid = amount
                           /\ x.discount_allowed = discount
                           /\ x.status # "voided"]_vars

\* C4's case: a payment refused for overpayment against a booking that already
\* has a non-voided payment, and one accepted that completes the amount due.
W_C4_OverpaymentRefused ==
    /\ last.op = "create_payment" /\ last.result = "overpayment"
    /\ \E b \in reservations : b.room_number = last.room /\ PaidFor(b.id) > 0
                               /\ b.payment_status = "payment incomplete"

\* C5: a room with a reserved or checked-in stay is never available, and a
\* room with a checked-in stay has status checked-in.
CE_C5_RoomStatusAgreesWithStays ==
    \A r \in rooms :
        /\ ActiveStays(r.room_number) # {} => r.status # "available"
        /\ (\E s \in ActiveStays(r.room_number) : s.status = "checked-in")
              => r.status = "checked-in"

\* C6: after a successful CheckOut the room is available, and listed by the
\* available-rooms query, if and only if no reserved or checked-in stay
\* remains for it.
CE_C6_CheckOutRecomputesStatus ==
    (last.op = "check_out_guest" /\ last.result = "ok")
        => \A r \in RoomsByNumber(last.room) :
              /\ r.status = "available" <=> ActiveStays(last.room) = {}
              /\ r \in list_available_rooms <=> ActiveStays(last.room) = {}

\* C7: after a successful CancelReservation the room is available if and only
\* if no reserved or checked-in stay still references it.
CE_C7_CancelRecomputesStatus ==
    (last.op \in {"delete_reservation", "cancel_reservation"} /\ last.result = "ok")
        => \A r \in RoomsByNumber(last.room) :
              r.status = "available" <=> ActiveStays(last.room) = {}

\* C8: CreateReservation is all-or-nothing: once it has been answered, also
\* with a store failure between its two commits, the reserved stay it created
\* does not exist unless the room's status has been set to reserved.
CE_C8_CreateReservationAtomic ==
    (last.op \in {"create_reservation", "main_create_reservation"}
        /\ last.result \in {"ok", "persistence"}
        /\ \E s \in reservations : s.id = last.id /\ s.status = "reserved")
        => \A r \in RoomsByNumber(last.room) : r.status = "reserved"

\* C9: when the store fails after the first commit of a CheckIn, CheckOut or
\* CancelReservation, the rooms and stays after the rollback are those from
\* before the operation.
CE_C9_FailureRestoresState ==
    [][\A p \in Procs :
          (/\ txns[p].pc = "committed"
           /\ txns[p].op \in {"check_in_guest", "check_out_guest", "cancel_reservation"}
           /\ txns'[p].pc = "done"
           /\ txns'[p].result = "persistence")
          => /\ rooms' = txns[p].before.rooms
             /\ reservations' = txns[p].before.reservations]_vars

\* C10: changing a room's rate after a booking was made does not change the
\* totalDue against which later payments for that booking are validated.
CE_C10_TotalDueFixedAtBooking ==
    [][\A b \in reservations :
          (b \in reservations' /\ RoomsByNumber(b.room_number) # {})
              => DueFor(b)' = DueFor(b)]_vars

\* ----------------------------------------------------------- payment claims

\* C11: every accepted RecordPayment stores balanceDue = max(totalDue -
\* newTotalPaid, 0), newTotalPaid being the sum over the booking's non-voided
\* payments with the new one, stores status payment completed when that
\* balance is 0 and payment incomplete otherwise, and writes the same status
\* onto the booking's payment_status.
C11_AcceptedPaymentRecorded ==
    [][(last'.op = "create_payment" /\ last'.result = "ok") =>
       \E x \in payments' \ payments :
          /\ x.id = last'.id
          /\ BookingsById(x.booking_id) # {}
          /\ \A b \in BookingsById(x.booking_id) : \A due \in DueFor(b) :
                /\ x.balance_due = (IF due - PaidFor(b.id)' > 0
                                    THEN due - PaidFor(b.id)' ELSE 0)
                /\ x.status = (IF x.balance_due = 0 THEN "payment completed"
                               ELSE "payment incomplete")
                /\ \A b2 \in reservations' :
                      b2.id = b.id => b2.payment_status = x.status]_vars

\* C11's case: a payment accepted after an earlier one, that settles the
\* booking.
W_C11_SecondPaymentCompletes ==
    /\ last.op = "create_payment" /\ last.result = "ok"
    /\ \E x \in payments :
          /\ x.id = last.id /\ x.status = "payment completed"
          /\ PaidFor(x.booking_id) > x.amount_paid + x.discount_allowed
          /\ \E b \in BookingsById(x.booking_id) :
                b.payment_status = "payment completed"

\* What a set of payment rows adds up to in amount_paid when a voided row
\* counts for 0.
RECURSIVE CountedAmount(_)
CountedAmount(ps) ==
    IF ps = {} THEN 0
    ELSE LET x == CHOOSE y \in ps : TRUE
         IN (IF x.status = "voided" THEN 0 ELSE x.amount_paid)
            + CountedAmount(ps \ {x})

\* Every aggregation takes a voided payment for 0: the total paid that
\* create_payment and the debtor listing compute for a booking, the total of
\* the payment listing over any range of dates, and the daily total.
VoidedCountForNothing ==
    /\ \A b \in reservations :
          /\ SumPayments(ExistingPayments(b.id)) = PaidFor(b.id)
          /\ DebtorTotalPaid(b) = PaidFor(b.id)
    /\ \A d \in get_debtor_list :
          d.total_paid = PaidFor(d.booking_id)
    /\ \A start_date \in 0..MaxDay, end_date \in 0..MaxDay :
          list_payments(start_date, end_date) =
             CountedAmount({x \in payments :
                              /\ start_date = 0 \/ x.payment_date.at >= start_date
                              /\ end_date = 0 \/ x.payment_date.at <= end_date})
    /\ total_payment = CountedAmount({x \in payments : x.payment_date.at = Today})

\* C12: after VoidPayment succeeds on a payment its amountPaid is unchanged,
\* and the payment contributes 0 to every later aggregation: the total paid
\* used by RecordPayment, the debtor listing's total paid, the payment
\* listing's total amount and the daily total.  The aggregations read the
\* three tables only, so they are compared after each step that writes one.
C12_VoidedPaymentExcluded ==
    [][/\ (last'.op = "void_payment" /\ last'.result = "ok") =>
             \E x \in payments : \E y \in payments' :
                /\ x.id = last'.id /\ y.id = x.id
                /\ y.status = "voided"
                /\ y.amount_paid = x.amount_paid
       /\ <<rooms, reservations, payments>>' # <<rooms, reservations, payments>>
             => VoidedCountForNothing']_vars

\* C12's case: a payment is accepted for a booking that has a voided payment
\* of a positive amount.
W_C12_PaymentAfterVoid ==
    /\ last.op = "create_payment" /\ last.result = "ok"
    /\ \E x \in payments, y \in payments :
          /\ y.id = last.id /\ x.booking_id = y.booking_id
          /\ x.status = "voided" /\ x.amount_paid > 0
          /\ y.amount_paid > 0

\* C13: VoidPayment by a caller whose role is not admin fails with a
\* permission error, and by an admin on a payment id that does not exist with
\* a not-found error; in both cases no payment's status changes.
C13_VoidRefused ==
    [][last'.op = "void_payment" =>
       \A c \in Callers, id \in PaymentIds :
          void_payment(c, id) =>
             /\ c.role # "admin" =>
                   last'.result = "permission" /\ payments' = payments
             /\ (c.role = "admin" /\ ~\E x \in payments : x.id = id) =>
                   last'.result = "not_found" /\ payments' = payments]_vars

\* C13's case: a caller who is no admin is refused the void of a payment
\* that exists and is not voided.
W_C13_NonAdminRefused ==
    /\ last.op = "void_payment" /\ last.result = "permission"
    /\ \E x \in payments : x.id = last.id /\ x.status # "voided"

\* C14: a second VoidPayment by an admin on a payment that is already voided
\* fails (not found or invalid state); it never reports success again.
CE_C14_SecondVoidFails ==
    [][(last'.op = "void_payment" /\ last'.result = "ok") =>
       \E x \in payments : x.id = last'.id /\ x.status # "voided"]_vars

\* C15: voiding is idempotent in its effect on state: a VoidPayment applied to
\* a payment that is already voided leaves the payments, the bookings and
\* every aggregation as the first one left them.
C15_VoidIdempotent ==
    [][(/\ last'.op = "void_payment"
        /\ \E x \in payments : x.id = last'.id /\ x.status = "voided") =>
       /\ payments' = payments
       /\ reservations' = reservations
       /\ rooms' = rooms
       /\ get_debtor_list' = get_debtor_list
       /\ total_payment' = total_payment
       /\ \A start_date \in 0..MaxDay, end_date \in 0..MaxDay :
             list_payments(start_date, end_date)'
                = list_payments(start_date, end_date)
       /\ \A b \in reservations :
             SumPayments(ExistingPayments(b.id))'
                = SumPayments(ExistingPayments(b.id))]_vars

\* C15's case: a void has just succeeded on a payment that was voided before:
\* the booking has another payment, not voided, that could only be accepted
\* once the first was voided (together they exceed the amount due).
W_C15_VoidedTwice ==
    /\ last.op = "void_payment" /\ last.result = "ok"
    /\ \E x \in payments, y \in payments :
          /\ x.id = last.id /\ x.status = "voided"
          /\ y.booking_id = x.booking_id /\ y.status # "voided" /\ y.id > x.id
          /\ \E b \in BookingsById(x.booking_id) : \A due \in DueFor(b) :
                x.amount_paid + x.discount_allowed
                   + y.amount_paid + y.discount_allowed > due

\* C16: VoidPayment changes only the status of the payment it voids: the
\* booking's payment_status, every other payment, and the stored balanceDue
\* and amountPaid of the voided payment are unchanged.
C16_VoidChangesStatusOnly ==
    [][(last'.op = "void_payment" /\ last'.result = "ok") =>
       /\ reservations' = reservations
       /\ rooms' = rooms
       /\ \A x \in payments :
             IF x.id = last'.id
             THEN [x EXCEPT !.status = "voided"] \in payments'
             ELSE x \in payments'
       /\ Cardinality(payments') = Cardinality(payments)]_vars

\* C16's case: after a void the booking still says payment completed while
\* what is paid and not voided no longer covers the amount due.
W_C16_StaleCompleted ==
    /\ last.op = "void_payment" /\ last.result = "ok"
    /\ \E x \in payments : \E b \in BookingsById(x.booking_id) :
          /\ x.id = last.id /\ x.status = "voided"
          /\ b.payment_status = "payment completed"
          /\ \A due \in DueFor(b) : PaidFor(b.id) < due

\* C17: a payment, once created, keeps all its fields; its status changes at
\* most to voided, a voided payment stays voided, and no payment is deleted.
C17_PaymentImmutable ==
    [][payments' # payments =>
       \A x \in payments : \E y \in payments' :
          /\ y.id = x.id
          /\ [y EXCEPT !.status = x.status] = x
          /\ y.status = x.status \/ y.status = "voided"
          /\ \A z \in payments' : z.id = x.id => z = y]_vars

\* C17's case: a payment of a positive amount has just been voided while
\* another payment stands as it was recorded.
W_C17_VoidedAmongOthers ==
    /\ last.op = "void_payment" /\ last.result = "ok"
    /\ \E x \in payments, y \in payments :
          /\ x.id = last.id /\ x.status = "voided" /\ x.amount_paid > 0
          /\ y.id # x.id /\ y.status = "payment incomplete"

C19_TimestampCheckedFirst ==
    [][/\ last'.op = "create_payment" =>
             \/ /\ last'.result = "validation"
                /\ payments' = payments
                /\ reservations' = reservations
             \/ \A id \in BookingIds, amount \in Amounts, discount \in Discounts,
                   date \in PaymentDates :
                   (~date.aware \/ date.at > Now)
                      => ~create_payment(id, amount, discount, date)
       /\ \A x \in payments' :
             x.payment_date.aware /\ x.payment_date.at <= Now]_vars

\* C19's case: a payment is refused for its timestamp when every booking id it
\* can name is either missing or checked out.
W_C19_RefusedBeforeBooking ==
    /\ last.op = "create_payment" /\ last.result = "validation"
    /\ reservations # {}
    /\ \A b \in reservations : b.status = "checked-out"
    /\ \E id \in BookingIds : BookingsById(id) = {}

\* ------------------------------------------------------- reservation claims

\* C20: CreateReservation fails with a validation error whenever arrival >
\* departure or arrival is not strictly after today, so every stay it has
\* created (the stays with status reserved) has today < arrival <= departure.
CE_C20_ReservedDatesValid ==
    \A s \in reservations :
       s.status = "reserved" =>
          Today < s.arrival_date /\ s.arrival_date <= s.departure_date

\* C21: CreateReservation on a room whose status is maintenance never
\* succeeds: no stay is created and the room stays as it is; the error is the
\* invalid-state one when no validation or conflict error comes first.
C21_MaintenanceNeverReserved ==
    [][\A n \in RoomNumbers :
          (/\ last'.op \in {"create_reservation", "main_create_reservation"}
           /\ last'.room = n
           /\ \E r \in RoomsByNumber(n) : r.status = "maintenance") =>
             /\ last'.result \in {"validation", "conflict_check_in",
                                  "conflict_reservation", "invalid_state"}
             /\ reservations' = reservations
             /\ rooms' = rooms
             /\ \A g \in GuestNames, a \in Days, d \in Days :
                   /\ (/\ Today < a /\ a <= d
                       /\ ~\E s \in ActiveStays(n) :
                             a <= s.departure_date /\ s.arrival_date <= d
                       /\ create_reservation(n, g, a, d))
                         => last'.result = "invalid_state"
                   /\ main_create_reservation(n, g, a, d)
                         => last'.result = "invalid_state"]_vars

\* C21's case: a reservation with valid dates and no conflict is refused
\* because the room is under maintenance.
W_C21_MaintenanceRefused ==
    /\ last.op = "create_reservation" /\ last.result = "invalid_state"
    /\ \E r \in rooms : r.room_number = last.room /\ r.status = "maintenance"

\* The stays of a room with a given status that share a day with [a, d].
StaysInRange(n, status, a, d) ==
    {s \in reservations : /\ s.room_number = n /\ s.status = status
                          /\ a <= s.departure_date /\ s.arrival_date <= d}

\* C22: CreateReservation checks active check-in conflicts before reservation
\* conflicts: a range that overlaps both a check-in and a reservation of the
\* room is refused with the check-in conflict, carrying that check-in's dates;
\* a range that overlaps only a reservation is refused with the reservation
\* conflict, carrying the reservation's dates.
C22_CheckInConflictFirst ==
    \A n \in RoomNumbers, a \in Days, d \in Days :
       (Today < a /\ a <= d /\ RoomsByNumber(n) # {}) =>
          LET ci == StaysInRange(n, "checked-in", a, d)
              rs == StaysInRange(n, "reserved", a, d)
              detail == ConflictDetail(n, a, d)
          IN /\ ci # {} =>
                   /\ CreateReservationCheck(n, a, d) = "conflict_check_in"
                   /\ detail # {}
                   /\ \A c \in detail :
                         /\ c.kind = "check-in"
                         /\ \E s \in ci : /\ c.arrival_date = s.arrival_date
                                          /\ c.departure_date = s.departure_date
             /\ (ci = {} /\ rs # {}) =>
                   /\ CreateReservationCheck(n, a, d) = "conflict_reservation"
                   /\ detail # {}
                   /\ \A c \in detail :
                         /\ c.kind = "reservation"
                         /\ \E s \in rs : /\ c.arrival_date = s.arrival_date
                                          /\ c.departure_date = s.departure_date

\* C22's case: a request is refused with the check-in conflict on a room where
\* the only days left to a request that meets the check-in are also days of a
\* reservation.
W_C22_BothOverlap ==
    /\ last.op = "create_reservation" /\ last.result = "conflict_check_in"
    /\ \E s1 \in reservations, s2 \in reservations :
          /\ s1.room_number = last.room /\ s2.room_number = last.room
          /\ s1.status = "checked-in" /\ s1.departure_date = Today + 1
          /\ s2.status = "reserved" /\ s2.arrival_date = Today + 1
          /\ s2.departure_date >= s2.arrival_date

\* The stay [a2, d2] conflicts with the requested range [a1, d1].
Conflicts(s, a1, d1) == a1 <= s.departure_date /\ s.arrival_date <= d1

\* C23: the conflict test of reservation creation is the inclusive overlap
\* predicate: a request whose other validations pass is refused for a conflict
\* exactly when some stay [a2, d2] the handler looks at has a1 <= d2 and
\* a2 <= d1; so a request [a1, d1], a1 <= d1, arriving on the departure day of
\* a stay [a2, d2], a2 <= d2, is refused, and one arriving the day after is not
\* refused on account of that stay.
C23_InclusiveOverlap ==
    \A n \in RoomNumbers, a \in Days, d \in Days :
       /\ (Today < a /\ a <= d /\ RoomsByNumber(n) # {}) =>
             /\ CreateReservationCheck(n, a, d)
                   \in {"conflict_check_in", "conflict_reservation"}
                <=> \E s \in ActiveStays(n) : Conflicts(s, a, d)
             /\ \A s \in ActiveStays(n) :
                   (s.arrival_date <= s.departure_date /\ a = s.departure_date)
                      => CreateReservationCheck(n, a, d) # "ok"
       /\ (/\ RoomsByNumber(n) # {}
           /\ \A r \in RoomsByNumber(n) : r.status = "available") =>
             /\ MainCreateReservationCheck(n, a, d) = "conflict_reservation"
                <=> \E s \in ReservationsByRoom(n) : Conflicts(s, a, d)
             /\ \A s \in ReservationsByRoom(n) :
                   (/\ s.arrival_date <= s.departure_date
                    /\ a = s.departure_date /\ a <= d)
                      => MainCreateReservationCheck(n, a, d) # "ok"

\* C23's case: a request is refused for a reservation conflict on a room whose
\* only stay ends the day after today and began before it, so the request, which
\* cannot arrive earlier than that day, arrived on the stay's departure day.
W_C23_ArrivalOnDepartureDay ==
    /\ last.op = "create_reservation" /\ last.result = "conflict_reservation"
    /\ \E s \in reservations :
          /\ ReservationsByRoom(last.room) = {s}
          /\ s.status = "reserved"
          /\ s.arrival_date < s.departure_date
          /\ s.departure_date = Today + 1

\* C24: CheckIn answers not-found when the room does not exist and
\* invalid-state when the room's status is not available, and then changes
\* nothing; when it succeeds it adds exactly one stay, of that room and with
\* status checked-in, leaves every other stay alone and sets the room's status
\* to checked-in.
C24_CheckIn ==
    [][last'.op = "check_in_guest" =>
         LET n == last'.room IN
         /\ RoomsByNumber(n) = {} =>
               /\ last'.result = "not_found"
               /\ rooms' = rooms /\ reservations' = reservations
         /\ (\E r \in RoomsByNumber(n) : r.status # "available") =>
               /\ last'.result = "invalid_state"
               /\ rooms' = rooms /\ reservations' = reservations
         /\ last'.result \in {"not_found", "invalid_state", "ok"}
         /\ last'.result = "ok" =>
               /\ \E s \in reservations' :
                     /\ s \notin reservations
                     /\ reservations' = reservations \cup {s}
                     /\ s.id = last'.id
                     /\ s.room_number = n /\ s.status = "checked-in"
               /\ \A r \in rooms' : r.room_number = n => r.status = "checked-in"
               /\ \A r \in rooms' : r.room_number # n => r \in rooms
               /\ {r.id : r \in rooms'} = {r.id : r \in rooms}]_vars

\* C24's case: a check-in succeeded on a room that already had a stay.
W_C24_CheckedIn ==
    /\ last.op = "check_in_guest" /\ last.result = "ok"
    /\ \E s \in reservations, t \in reservations :
          /\ s.id = last.id /\ s.status = "checked-in" /\ t.id # s.id
          /\ t.room_number = s.room_number
    /\ \A r \in rooms : r.room_number = last.room => r.status = "checked-in"

\* C25: CheckOut of a room none of whose stays is checked-in answers
\* invalid-state (not-found when there is no such room at all) and changes no
\* stay and no room; when it succeeds, exactly one stay of that room that was
\* checked-in becomes checked-out and no other stay changes.
C25_CheckOut ==
    [][last'.op = "check_out_guest" =>
         LET n == last'.room
             checkedIn == {s \in reservations :
                             s.room_number = n /\ s.status = "checked-in"}
         IN
         /\ (RoomsByNumber(n) # {} /\ checkedIn = {}) =>
               last'.result = "invalid_state"
         /\ RoomsByNumber(n) = {} => last'.result = "not_found"
         /\ last'.result # "ok" =>
               rooms' = rooms /\ reservations' = reservations
         /\ last'.result = "ok" =>
               \E s \in checkedIn :
                  /\ s.id = last'.id
                  /\ reservations' = (reservations \ {s})
                        \cup {[s EXCEPT !.status = "checked-out"]}]_vars

\* C25's case: a check-out succeeded on a room with two checked-in stays; one
\* is now checked-out and the other is still checked-in.
W_C25_OneOfTwoCheckedOut ==
    /\ last.op = "check_out_guest" /\ last.result = "ok"
    /\ \E s \in reservations, t \in reservations :
          /\ s.id = last.id /\ s.status = "checked-out"
          /\ t.room_number = s.room_number /\ t.status = "checked-in"

\* C26: CancelReservation succeeds only for an admin or for the guest named on
\* the reservation, and refuses every other caller with a permission error; in
\* particular a caller all of the room's reservations are in the name of is not
\* refused for permission.
CE_C26_GuestMayCancel ==
    [][\A c \in Callers, n \in RoomNumbers :
          (/\ ReservationsByRoom(n) # {}
           /\ \A s \in ReservationsByRoom(n) : s.guest_name = c.username
           /\ cancel_reservation(c, n) \/ delete_reservation(c, n, c.username))
             => last'.result # "permission"]_vars

\* C27: a stay with status checked-in is never removed or cancelled by
\* CancelReservation: the only step after which a checked-in stay is no longer
\* there as it was is a CheckOut.
CE_C27_CheckedInOnlyCheckedOut ==
    [][\A s \in reservations :
          s.status = "checked-in" =>
             (s \in reservations' \/ last'.op = "check_out_guest")]_vars

\* C28: a stay that has reached status checked-out is never deleted: a stay
\* with that status before a step is a stay with that status after it.
CE_C28_CheckedOutKept ==
    [][\A s \in reservations :
          s.status = "checked-out" =>
             \E t \in reservations' : t.id = s.id /\ t.status = "checked-out"]_vars

\* C29: a room is deleted only when its status is available and no stay
\* references it: a delete_room request for a room whose status is not
\* available, or that a stay still references, fails and leaves the room in
\* place.
CE_C29_DeletedOnlyWhenFree ==
    [][last'.op \in {"delete_room", "main_delete_room"} =>
         \A r \in RoomsByNumber(last'.room) :
            (r.status # "available" \/ ReservationsByRoom(r.room_number) # {})
               => (last'.result # "ok" /\ r \in rooms')]_vars

\* C30: in every reachable state each room's status is one of available,
\* reserved, checked-in, maintenance and each stay's status is one of reserved,
\* checked-in, checked-out, cancelled; no operation stores another value.
CE_C30_StatusDomains ==
    /\ \A r \in rooms :
          r.status \in {"available", "reserved", "checked-in", "maintenance"}
    /\ \A s \in reservations :
          s.status \in {"reserved", "checked-in", "checked-out", "cancelled"}

\* ------------------------------------------------------------ closing claims

\* The handlers of the stay lifecycle: CreateReservation, CheckIn, CheckOut and
\* CancelReservation in both variants.
LifecycleOps ==
    {"create_reservation", "main_create_reservation", "check_in_guest",
     "check_out_guest", "delete_reservation", "cancel_reservation"}

\* C31: after a room is created its status changes only as the effect of
\* CreateReservation, CheckIn, CheckOut or CancelReservation: a step that
\* changes the status of a room is a step of one of these operations.
CE_C31_StatusOnlyByLifecycle ==
    [][\A r \in rooms, r2 \in rooms' :
          (r.id = r2.id /\ r.status # r2.status) => last'.op \in LifecycleOps]_vars

\* The errors a core operation answers before it has written anything.
RefusalKinds ==
    {"validation", "not_found", "conflict_check_in", "conflict_reservation",
     "invalid_state", "permission", "overpayment"}

\* C32: every core operation validates before it writes: a step of
\* CreateReservation, CheckIn, CheckOut, CancelReservation, RecordPayment or
\* VoidPayment that answers a validation, not-found, conflict, invalid-state,
\* permission or overpayment error leaves the rooms, the stays with their
\* payment statuses, and the payments exactly as they were.
C32_RefusalWritesNothing ==
    [][(/\ last'.op \in LifecycleOps \cup {"create_payment", "void_payment"}
        /\ last'.result \in RefusalKinds)
          => /\ rooms' = rooms
             /\ reservations' = reservations
             /\ payments' = payments]_vars

\* C32's case: a payment was refused as an overpayment on a booking that
\* already has a payment, and a stay and its room are there to be changed.
W_C32_OverpaymentRefused ==
    /\ last.op = "create_payment" /\ last.result = "overpayment"
    /\ payments # {}
    /\ \E b \in reservations : b.room_number = last.room

\* C33: the lifecycle operations move a room's status in the order available,
\* reserved, checked-in, available: none of them moves a room from checked-in
\* to reserved, and none but CheckOut moves a room from checked-in to
\* available.
CE_C33_CheckedInLeftByCheckOut ==
    [][last'.op \in LifecycleOps =>
         \A r \in rooms, r2 \in rooms' :
            (r.id = r2.id /\ r.status = "checked-in") =>
               \/ r2.status = "checked-in"
               \/ r2.status = "available" /\ last'.op = "check_out_guest"]_vars

\* C34: when RecordPayment is refused for overpayment the error names the exact
\* excess: the non-voided payments so far plus the new amount paid and the new
\* discount, minus the total due.
CE_C34_ExcessNamed ==
    \A b \in reservations, room \in rooms, a \in Amounts, d \in Discounts :
       (/\ room.room_number = b.room_number
        /\ PaymentCheck(b, room, a, d) = "overpayment") =>
          OverpaymentDetail(NewTotalPayment(b.id, a, d), TotalDue(b, room))
             = PaidFor(b.id) + a + d
                  - (b.departure_date - b.arrival_date) * room.amount

\* The balance due of a booking whose room exists: its nights at the room's
\* rate, minus what its non-voided payments paid and discounted.
Balance(b) ==
    (CHOOSE due \in DueFor(b) : TRUE) - PaidFor(b.id)

\* The bookings that owe: not cancelled, with a room, balance above zero.
Debtors ==
    {b \in reservations : /\ b.status # "cancelled"
                          /\ DueFor(b) # {}
                          /\ Balance(b) > 0}

RECURSIVE SumBalances(_)
SumBalances(bs) ==
    IF bs = {} THEN 0
    ELSE LET b == CHOOSE b \in bs : TRUE IN Balance(b) + SumBalances(bs \ {b})

\* C35: the debtor listing returns exactly the non-cancelled bookings whose
\* balance due (nights times room rate, minus amount paid plus discount over
\* the booking's non-voided payments) is above zero, each with that balance,
\* and its total debt is the sum of those balances.
C35_DebtorList ==
    /\ {e.booking_id : e \in get_debtor_list} = {b.id : b \in Debtors}
    /\ \A e \in get_debtor_list :
          \E b \in Debtors : b.id = e.booking_id /\ e.amount_due = Balance(b)
    /\ total_debt_amount = SumBalances(Debtors)

\* C35's case: one booking owes and is listed, another is paid up and is not,
\* and a voided payment is on the books.
W_C35_OneOwesOnePaid ==
    /\ \E b \in reservations, e \in get_debtor_list :
          e.booking_id = b.id /\ e.total_paid > 0
    /\ \E b \in reservations :
          /\ b.id \notin {e.booking_id : e \in get_debtor_list}
          /\ \E x \in payments : x.booking_id = b.id
    /\ \E x \in payments : x.status = "voided"

\* C36: room numbers are unique: however create_room requests follow one
\* another or interleave, no two rooms share a room number, and a create_room
\* for a number that a room already has fails and adds no room.
C36_RoomNumbersUnique ==
    /\ [](\A r1 \in rooms, r2 \in rooms :
             r1.room_number = r2.room_number => r1.id = r2.id)
    /\ [][(last'.op = "create_room" /\ RoomsByNumber(last'.room) # {}) =>
             /\ last'.result # "ok"
             /\ rooms' = rooms]_vars

\* C36's case: of two requests for the same number that both found it free,
\* one created the room and the other was refused by the store.
W_C36_SecondInsertRefused ==
    /\ last.op = "create_room" /\ last.result = "persistence"
    /\ Cardinality(RoomsByNumber(last.room)) = 1
    /\ \E p \in Procs : txns[p].pc = "done" /\ txns[p].result = "ok"

C38_GroupCheckOutDoesNothing ==
    /\ [](\A s \in reservations : s.status # "booked")
    /\ [][last'.op = "check_out_multiple_rooms" =>
             /\ rooms' = rooms
             /\ reservations' = reservations
             /\ Len(last'.results) \in 1..MaxGroup
             /\ \A i \in DOMAIN last'.results :
                   last'.results[i].status = "error"]_vars

\* C38's case: a group check-out was asked for a room with a checked-in guest
\* and reported that the room is not booked.
W_C38_CheckedInRoomReported ==
    /\ last.op = "check_out_multiple_rooms"
    /\ \E i \in DOMAIN last.results :
          /\ last.results[i].message = "Room is not currently booked."
          /\ \E s \in reservations :
                /\ s.room_number = last.results[i].room_number
                /\ s.status = "checked-in"

\* C39: registration creates no user with role admin unless the request
\* carried the correct admin password: a registration that asks for role admin
\* with a missing or wrong admin_password is refused and creates no user.
CE_C39_AdminNeedsPassword ==
    [][\A n \in UserNames, pw \in AdminPasswords :
          (/\ pw # ADMIN_PASSWORD
           /\ sign_up(n, "admin", pw) \/ register_user(n, "admin", pw))
             => /\ last'.result # "ok"
                /\ users' = users]_vars

====
